---------------------------- MODULE Spec2Model ----------------------------
(***************************************************************************)
(* The agent loops of simple-agent: agentLoop (03-agent-loop, 04-real-     *)
(* tools), the skills agent (05-skills), planThenExecute and reactAgent    *)
(* (06-planning), adaptiveAgent with createPlan and executeWithReact       *)
(* (07-adaptive-agent) and interactiveAgent (08-interactive-agent).        *)
(*                                                                         *)
(* One run of one program is modelled.  The reasoning service and the user *)
(* are the environment: every response of the service and every answer of  *)
(* the user is drawn from a small set.  A step of the model is what the    *)
(* code does between two awaits, or one pass through the for-loop over the *)
(* tool calls of a response.                                               *)
(*                                                                         *)
(* The environment's routine is: the service answers with one plain tool   *)
(* call, with a final text or (adaptiveAgent) with one request_replan, and *)
(* the user ends the dialogue.  Once per run it may depart from it, with   *)
(* any response of Responses or with a follow-up message.                  *)
(***************************************************************************)
EXTENDS Integers, Sequences, FiniteSets, TLC

VARIABLES
    prog,          \* which program runs (chosen at start, never changes)
    pc,            \* where the program is suspended
    messages,      \* the transcript (the messages array of the running loop)
    iteration,     \* the loop's iteration counter
    idx,           \* position of the for-loop over message.tool_calls
    requests,      \* decision requests (with tools) sent by the running loop
    invocations,   \* ids of the calls of this transcript whose handler ran
    result,        \* what the iteration loop returned to its caller
    ended,         \* why the iteration loop ended
    plan,          \* adaptiveAgent / planThenExecute: version of the current plan
    replanCount,   \* adaptiveAgent: replanCount
    replanContext, \* executeWithReact's result.replanContext
    planCalls,     \* createPlan calls made so far: <<initial, with context>>
    attempts,      \* adaptiveAgent: executeWithReact calls made so far
    outcome,       \* how the whole program ended
    toolCalls,     \* message.tool_calls of the response being processed
    planRequest,   \* the context argument of the createPlan call in flight
    deviated,      \* the environment has once departed from its routine
    planText,      \* cleanJson of the latest answer to a plan request
    written,       \* the writeFileSync calls that succeeded: [id, path]
    answered,      \* write_file's locals answer and newPath, as last set
    handlers,      \* the handler tables: the keys of each table object
    input,         \* the argument of the function that is run on its own
    output,        \* what that function returned; in a run of a whole
                   \* program, what its entry function returned
    given,         \* the task the loop was called with
    rl             \* the readline interface of 08: how often it was closed,
                   \* and whether a prompt was issued on it after that

vars == <<prog, pc, messages, iteration, idx, requests, invocations, result,
          ended, plan, replanCount, replanContext, planCalls, attempts,
          outcome, toolCalls, planRequest, deviated, planText, written,
          answered, handlers, input,
                output, given, rl>>

-----------------------------------------------------------------------------
(* Bounds of the model. *)

\* most tool calls in one response of the service
MaxCalls == 2

\* most skills in one call of createAgent
MaxSkills == 3
\* the longest text of the service handed to the plan parser, in tokens
MaxTokens == 6
\* the readings of the clock, in seconds, during two calls of a handler
MaxClock == 2
\* the most options an ask_user_choice call offers
MaxOptions == 2
\* the longest answer typed at the prompt of ask_user_choice, in characters
MaxAnswer == 2

-----------------------------------------------------------------------------
(* Program constants. *)

MAX_ITERATIONS == 10
RealToolsIterations == 10
SkillsIterations == 10
PlanExecuteIterations == 15
ReactIterations == 20
ExecuteWithReactIterations == 20
InteractiveIterations == 30
MAX_REPLANS == 3

Programs ==
    {"agentLoop", "realTools", "skillsAgent", "planThenExecute", "reactAgent",
     "adaptiveAgent", "interactiveAgent"}

\* the ceiling of each loop's while condition
MaxIterations(p) ==
    CASE p = "agentLoop" -> MAX_ITERATIONS
      [] p = "realTools" -> RealToolsIterations
      [] p = "skillsAgent" -> SkillsIterations
      [] p = "planThenExecute" -> PlanExecuteIterations
      [] p = "reactAgent" -> ReactIterations
      [] p = "adaptiveAgent" -> ExecuteWithReactIterations
      [] p = "interactiveAgent" -> InteractiveIterations

\* the names declared in the tools array each loop sends with its requests
tools(p) ==
    CASE p = "agentLoop" -> {"get_weather", "get_time"}
      [] p = "realTools" -> {"run_bash", "read_file"}
      [] p = "skillsAgent" ->
            {"read_file", "write_file", "list_dir", "run_bash", "calculate"}
      [] p \in {"planThenExecute", "reactAgent"} ->
            {"think", "run_bash", "read_file", "write_file"}
      [] p = "adaptiveAgent" ->
            {"think", "run_bash", "read_file", "write_file", "request_replan"}
      [] p = "interactiveAgent" ->
            {"think", "run_bash", "read_file", "write_file", "ask_user_choice",
             "ask_user_input", "ask_user_confirm"}

\* toolHandlers with the bug of a table copied from 06-planning: 07 has no
\* request_replan entry
toolHandlersCopiedFrom06(p) ==
    CASE p = "agentLoop" -> {"get_weather", "get_time"}
      [] p = "realTools" -> {"run_bash", "read_file"}
      [] p = "skillsAgent" ->
            {"read_file", "write_file", "list_dir", "run_bash", "calculate"}
      [] p \in {"planThenExecute", "reactAgent", "adaptiveAgent"} ->
            {"think", "run_bash", "read_file", "write_file"}
      [] p = "interactiveAgent" ->
            {"think", "run_bash", "read_file", "write_file", "ask_user_choice",
             "ask_user_input", "ask_user_confirm"}

\* the keys of the handler table each loop dispatches on
toolHandlers(p) ==
    CASE p = "agentLoop" -> {"get_weather", "get_time"}
      [] p = "realTools" -> {"run_bash", "read_file"}
      [] p = "skillsAgent" ->
            {"read_file", "write_file", "list_dir", "run_bash", "calculate"}
      [] p \in {"planThenExecute", "reactAgent"} ->
            {"think", "run_bash", "read_file", "write_file"}
      [] p = "adaptiveAgent" ->
            {"think", "run_bash", "read_file", "write_file", "request_replan"}
      [] p = "interactiveAgent" ->
            {"think", "run_bash", "read_file", "write_file", "ask_user_choice",
             "ask_user_input", "ask_user_confirm"}

\* handlers that return a promise (08-interactive-agent only)
AsyncHandlers ==
    {"write_file", "ask_user_choice", "ask_user_input", "ask_user_confirm"}

-----------------------------------------------------------------------------
(* The transcript. *)

NoId == <<0, 0>>

SystemTurn(p, v) ==
    [role |-> "system", calls |-> <<>>, id |-> NoId, content |-> p, plan |-> v]

UserTurn(text) ==
    [role |-> "user", calls |-> <<>>, id |-> NoId, content |-> text, plan |-> 0]

\* the service's message, pushed as it came
AssistantTurn(calls) ==
    [role |-> "assistant", calls |-> calls, id |-> NoId,
     content |-> IF calls = <<>> THEN "final text" ELSE "", plan |-> 0]


\* ToolTurn with the bug of tagging every result with the id of the first
\* call of the response (message.tool_calls[0].id)
ToolTurnFirstId(call, content) ==
    [role |-> "tool", calls |-> <<>>, id |-> <<call.id[1], 1>>,
     content |-> content, plan |-> 0]

\* messages.push({ role: "tool", tool_call_id: toolCall.id, content })
ToolTurn(call, content) ==
    [role |-> "tool", calls |-> <<>>, id |-> call.id, content |-> content,
     plan |-> 0]

-----------------------------------------------------------------------------
(* Result texts.  The source's texts are Russian; each is named here by    *)
(* what it says.                                                           *)

\* 03-agent-loop: `Oshibka: tool "${name}" ne naiden`
ToolNotFoundError == "Error: tool not found"
\* the other loops: `Tool "${name}" ne naiden`
ToolNotFound == "Tool not found"
\* a handler's catch branch: `Oshibka: ${e.message}`
HandlerError == "Error: operation failed"
\* interactive write_file: the user declined
WriteRejected == "User rejected the write"

NotFoundTexts == {ToolNotFoundError, ToolNotFound}

-----------------------------------------------------------------------------
(* A tool call is [id, name, args].  args is the class of the argument     *)
(* payload string: "ok" (JSON with the fields the schema requires),        *)
(* "empty" (valid JSON, the object {}, no field present), "malformed"      *)
(* (not JSON), "fails once" (JSON with the required fields, naming an      *)
(* operation that fails the first time it is run in this step and succeeds *)
(* when it is run again: a command that hits its timeout on a cold cache,  *)
(* `! mkdir d`).                                                            *)

\* the city names the service may pass to get_weather: the two of the
\* table ("Moskva" and "Anapa" stand for the Cyrillic keys) and another one
Cities == {"Moskva", "Anapa", "Paris"}

\* "hangs": a command or path whose process never exits by itself
Args == {"ok", "empty", "malformed", "fails once", "hangs"} \cup Cities

\* the payload has the fields the schema requires
Conforming(args) == args \in {"ok", "fails once", "hangs"} \cup Cities

\* const data: Record<string, string> of get_weather (the texts stand for
\* the Cyrillic ones)
data ==
    [city \in {"Moskva", "Anapa"} |->
        IF city = "Moskva" THEN "-5C, snow" ELSE "+8C, cloudy"]

\* `No data for ${city}`
NoData(city) ==
    IF city \in Cities THEN "no data for Paris" ELSE "no data for undefined"

\* get_weather with the bug of answering every known city with the first
\* entry of the table
get_weatherFirstEntry(city) ==
    IF city \in DOMAIN data THEN data["Moskva"] ELSE NoData(city)

\* get_weather: ({ city }) => data[city] ?? `No data for ${city}`
get_weather(city) ==
    IF city \in DOMAIN data THEN data[city] ELSE NoData(city)

\* execSync / readFileSync / writeFileSync throws inside the handler's try,
\* at the n-th invocation of the handler for the same call
OperationFails(args, n) ==
    \/ args = "empty"
    \/ args = "fails once" /\ n = 1
    \/ args = "hangs"

\* the handlers that call execSync with a timeout option (5000 in 04 and
\* 05, 10000 in 06, 07 and 08): the process is killed and execSync throws
ExecTimeout(name) == name = "run_bash"

\* execSync without a timeout on a process that never exits: the handler
\* never returns
NeverReturns(name, args) ==
    /\ name \in {"run_bash", "list_dir"}
    /\ args = "hangs"
    /\ ~ExecTimeout(name)

\* JSON.parse(toolCall.function.arguments) throws a SyntaxError
JsonParseThrows(args) == args = "malformed"

\* args.content.length in the argsPreview of planThenExecute, reactAgent and
\* executeWithReact: a TypeError when content is absent
PreviewThrows(name, args) == name = "write_file" /\ args = "empty"

\* what the handler of `name` returns for parsed arguments, at its n-th
\* invocation for the same call
HandlerReturn(p, name, args, n) ==
    CASE name = "think" -> "OK"
      [] name = "request_replan" -> "REPLAN_REQUESTED"
      [] name = "get_weather" -> get_weather(args)
      [] name = "get_time" -> "time"
      [] name = "write_file" ->
            IF OperationFails(args, n) THEN HandlerError ELSE "written"
      [] OTHER -> IF OperationFails(args, n) THEN HandlerError ELSE "output"

\* the handler itself throws: interactive write_file calls content.split
\* outside its try blocks
HandlerThrows(p, name, args) ==
    p = "interactiveAgent" /\ name = "write_file" /\ args = "empty"

\* The effect of one pass through a loop's for-body:
\*   fault    an exception leaves the loop (nothing catches it)
\*   invoked  how many times the handler was called
\*   push     a tool turn with `content` is appended
\*   exit     "replan" when the body returns out of the loop, "hang" when
\*            the handler never returns
\*   suspend  the body awaits the user before it can push
Effect(fault, invoked, push, content, exit, suspend) ==
    [fault |-> fault, invoked |-> invoked, push |-> push, content |-> content,
     exit |-> exit, suspend |-> suspend]

Fault(invoked) == Effect(TRUE, invoked, FALSE, "", "none", FALSE)
Hang(invoked) == Effect(FALSE, invoked, FALSE, "", "hang", FALSE)
Push(invoked, content) == Effect(FALSE, invoked, TRUE, content, "none", FALSE)

\* 03-agent-loop.ts agentLoop, for-body
agentLoopBody(call) ==
    IF JsonParseThrows(call.args) THEN Fault(0)
    ELSE IF call.name \in toolHandlers("agentLoop")
         THEN Push(1, HandlerReturn("agentLoop", call.name, call.args, 1))
         ELSE Push(0, ToolNotFoundError)

\* 04-real-tools.ts agentLoop, for-body
realToolsBody(call) ==
    IF JsonParseThrows(call.args) THEN Fault(0)
    ELSE IF call.name \in toolHandlers("realTools")
         THEN Push(1, HandlerReturn("realTools", call.name, call.args, 1))
         ELSE Push(0, ToolNotFound)

\* 05-skills.ts createAgent/run, for-body
skillsBody(call) ==
    IF JsonParseThrows(call.args) THEN Fault(0)
    ELSE IF call.name \in toolHandlers("skillsAgent")
         THEN IF NeverReturns(call.name, call.args) THEN Hang(1)
              ELSE Push(1, HandlerReturn("skillsAgent", call.name, call.args, 1))
         ELSE Push(0, ToolNotFound)

\* 06-planning.ts planThenExecute, for-body
planThenExecuteBody(call) ==
    IF JsonParseThrows(call.args) THEN Fault(0)
    ELSE IF PreviewThrows(call.name, call.args) THEN Fault(0)
    ELSE IF call.name \in toolHandlers("planThenExecute")
         THEN Push(1, HandlerReturn("planThenExecute", call.name, call.args, 1))
         ELSE Push(0, ToolNotFound)

\* reactAgentBody with the bug of leaving a think call unanswered
reactAgentBodyThinkUnanswered(call) ==
    IF JsonParseThrows(call.args) THEN Fault(0)
    ELSE IF call.name = "think" THEN Effect(FALSE, 0, FALSE, "", "none", FALSE)
    ELSE IF PreviewThrows(call.name, call.args) THEN Fault(0)
    ELSE IF call.name \in toolHandlers("reactAgent")
         THEN Push(1, HandlerReturn("reactAgent", call.name, call.args, 1))
         ELSE Push(0, ToolNotFound)

\* 06-planning.ts reactAgent, for-body: think is answered "OK" without its
\* handler being called
reactAgentBody(call) ==
    IF JsonParseThrows(call.args) THEN Fault(0)
    ELSE IF call.name = "think" THEN Push(0, "OK")
    ELSE IF PreviewThrows(call.name, call.args) THEN Fault(0)
    ELSE IF call.name \in toolHandlers("reactAgent")
         THEN Push(1, HandlerReturn("reactAgent", call.name, call.args, 1))
         ELSE Push(0, ToolNotFound)

\* executeWithReactBody with the bug of not returning from the
\* request_replan branch
executeWithReactBodyNoReturn(call) ==
    IF JsonParseThrows(call.args) THEN Fault(0)
    ELSE IF call.name = "think" THEN Push(1, "OK")
    ELSE IF call.name = "request_replan" THEN Push(0, "REPLAN_REQUESTED")
    ELSE IF PreviewThrows(call.name, call.args) THEN Fault(0)
    ELSE IF call.name \in toolHandlers("adaptiveAgent")
         THEN Push(2, HandlerReturn("adaptiveAgent", call.name, call.args, 2))
         ELSE Push(0, "OK")

\* executeWithReactBody with the bug of answering a declared tool without
\* calling its handler
executeWithReactBodyUnexecuted(call) ==
    IF JsonParseThrows(call.args) THEN Fault(0)
    ELSE IF call.name = "request_replan"
         THEN Effect(FALSE, 0, TRUE, "REPLAN_REQUESTED", "replan", FALSE)
    ELSE IF PreviewThrows(call.name, call.args) THEN Fault(0)
    ELSE Push(0, "OK")

\* 07-adaptive-agent.ts executeWithReact, for-body.  In the else branch the
\* handler is called for the log line (`?? Tool not found`), and the push
\* after the if calls it again (`?? "OK"`).
executeWithReactBody(call) ==
    IF JsonParseThrows(call.args) THEN Fault(0)
    ELSE IF call.name = "think" THEN Push(1, HandlerReturn("adaptiveAgent", "think", call.args, 1))
    ELSE IF call.name = "request_replan"
         THEN Effect(FALSE, 0, TRUE, "REPLAN_REQUESTED", "replan", FALSE)
    ELSE IF PreviewThrows(call.name, call.args) THEN Fault(0)
    ELSE IF call.name \in toolHandlers("adaptiveAgent")
         THEN Push(2, HandlerReturn("adaptiveAgent", call.name, call.args, 2))
         ELSE Push(0, "OK")

\* interactiveAgentBody with the bug of not awaiting the promise of an
\* asynchronous handler: the loop goes on to the next call at once
interactiveAgentBodyNotAwaited(call) ==
    IF JsonParseThrows(call.args) THEN Fault(0)
    ELSE IF call.name \notin toolHandlers("interactiveAgent")
         THEN Push(0, ToolNotFound)
    ELSE IF HandlerThrows("interactiveAgent", call.name, call.args) THEN Fault(1)
    ELSE IF call.name \in AsyncHandlers
         THEN Effect(FALSE, 1, FALSE, "", "none", FALSE)
         ELSE Push(1, HandlerReturn("interactiveAgent", call.name, call.args, 1))

\* 08-interactive-agent.ts interactiveAgent, for-body up to the handler call
interactiveAgentBody(call) ==
    IF JsonParseThrows(call.args) THEN Fault(0)
    ELSE IF call.name \notin toolHandlers("interactiveAgent")
         THEN Push(0, ToolNotFound)
    ELSE IF HandlerThrows("interactiveAgent", call.name, call.args) THEN Fault(1)
    ELSE IF call.name \in AsyncHandlers
         THEN Effect(FALSE, 1, FALSE, "", "none", TRUE)
         ELSE Push(1, HandlerReturn("interactiveAgent", call.name, call.args, 1))

ToolCallBody(p, call) ==
    CASE p = "agentLoop" -> agentLoopBody(call)
      [] p = "realTools" -> realToolsBody(call)
      [] p = "skillsAgent" -> skillsBody(call)
      [] p = "planThenExecute" -> planThenExecuteBody(call)
      [] p = "reactAgent" -> reactAgentBody(call)
      [] p = "adaptiveAgent" -> executeWithReactBody(call)
      [] p = "interactiveAgent" -> interactiveAgentBody(call)


-----------------------------------------------------------------------------
(* The reasoning service. *)

Call(name, args) == [name |-> name, args |-> args]

\* the call the service makes when it does nothing special
RoutineCall(p) ==
    CASE p = "agentLoop" -> Call("get_weather", "Moskva")
      [] p \in {"realTools", "skillsAgent"} -> Call("run_bash", "ok")
      [] OTHER -> Call("think", "ok")

\* the calls the service chooses among: the routine call, get_weather for
\* another city of the table and for a city outside it, a call of another
\* declared tool, a name that is not declared, a payload that is not JSON, a
\* run_bash whose command fails, a run_bash (in 04 and 05, whose handlers
\* differ from the others' only in the timeout value) and a list_dir whose
\* process never exits, a write_file without its fields, and
\* request_replan where it is declared
CallKinds(p) ==
    {RoutineCall(p), Call("no_such_tool", "ok"), Call("run_bash", "malformed")}
    \cup (IF "get_weather" \in tools(p)
          THEN {Call("get_weather", "Anapa"), Call("get_weather", "Paris")}
          ELSE {})
    \cup (IF "think" \in tools(p) THEN {Call("run_bash", "ok")} ELSE {})
    \cup (IF "run_bash" \in tools(p)
          THEN {Call("run_bash", "fails once")} ELSE {})
    \cup (IF p \in {"realTools", "skillsAgent"}
          THEN {Call("run_bash", "hangs")} ELSE {})
    \cup (IF "list_dir" \in tools(p) THEN {Call("list_dir", "hangs")} ELSE {})
    \cup (IF "write_file" \in tools(p) THEN {Call("write_file", "empty")} ELSE {})
    \cup (IF p = "interactiveAgent"
          THEN {Call("write_file", "ok"), Call("ask_user_confirm", "ok")}
          ELSE {})
    \cup (IF "request_replan" \in tools(p)
          THEN {Call("request_replan", "ok")} ELSE {})

Responses(p) ==
    UNION {[1..n -> CallKinds(p)] : n \in 0..MaxCalls}

Routine(p, calls) ==
    \/ calls = <<>>
    \/ calls = <<RoutineCall(p)>>
    \/ calls = <<Call("request_replan", "ok")>>

\* the service gives every tool call of a response its own identifier
WithIds(calls, it) ==
    [k \in 1..Len(calls) |->
        [id |-> <<it, k>>, name |-> calls[k].name, args |-> calls[k].args]]

\* the parsed payload of a request_replan call
ParsedArgs(call) ==
    IF call.args = "ok"
    THEN [reason |-> <<"reason", call.id>>,
          completed_steps |-> <<"steps", call.id>>,
          discoveries |-> <<"discoveries", call.id>>]
    ELSE [reason |-> <<"undefined", NoId>>,
          completed_steps |-> <<"undefined", NoId>>,
          discoveries |-> <<"undefined", NoId>>]

\* A text of the service is a sequence of tokens: "fence" (three backticks), "json"
\* (the word after an opening fence), "nl" (a newline), "PLAN" (the JSON of a
\* plan), "EMPTY" (the JSON of a plan whose steps are []), "NOSTEPS" (the
\* JSON {}), "prose" (anything that is not JSON).
PlanJson == <<"PLAN">>
FencedPlan == <<"fence", "json", "nl", "PLAN", "nl", "fence">>
NotJson == <<"prose">>
EmptySteps == <<"EMPTY">>
NoSteps == <<"NOSTEPS">>

\* the text the service answers a plan request with: a plan, a plan inside a
\* markdown fence, a text that is not JSON, the JSON of a plan whose steps
\* are the empty array, the JSON {} (no goal, no steps)
PlanTexts == {PlanJson, FencedPlan, NotJson, EmptySteps, NoSteps}

\* the plan texts of the service's routine
RoutinePlanText(text) == text \in {PlanJson, FencedPlan, NotJson}

\* .replace(/```json\n?/g, "")
RECURSIVE StripJsonFences(_)
StripJsonFences(t) ==
    IF t = <<>> THEN <<>>
    ELSE IF Len(t) >= 2 /\ t[1] = "fence" /\ t[2] = "json"
    THEN IF Len(t) >= 3 /\ t[3] = "nl"
         THEN StripJsonFences(SubSeq(t, 4, Len(t)))
         ELSE StripJsonFences(SubSeq(t, 3, Len(t)))
    ELSE <<t[1]>> \o StripJsonFences(Tail(t))

\* .replace(/```\n?/g, "")
RECURSIVE StripFences(_)
StripFences(t) ==
    IF t = <<>> THEN <<>>
    ELSE IF t[1] = "fence"
    THEN IF Len(t) >= 2 /\ t[2] = "nl"
         THEN StripFences(SubSeq(t, 3, Len(t)))
         ELSE StripFences(Tail(t))
    ELSE <<t[1]>> \o StripFences(Tail(t))

\* .trim()
RECURSIVE trim(_)
trim(t) ==
    IF t = <<>> THEN <<>>
    ELSE IF t[1] = "nl" THEN trim(Tail(t))
    ELSE IF t[Len(t)] = "nl" THEN trim(SubSeq(t, 1, Len(t) - 1))
    ELSE t

\* cleanJson with the bug of stripping only the bare fence
cleanJsonBareFenceOnly(text) == trim(StripFences(text))

\* text.replace(/```json\n?/g, "").replace(/```\n?/g, "").trim()
cleanJson(text) == trim(StripFences(StripJsonFences(text)))

\* JSON.parse: one JSON value, white space around it allowed; anything else
\* is a SyntaxError
JsonParse(text) ==
    LET value == SelectSeq(text, LAMBDA tok : tok # "nl")
    IN IF Len(value) = 1 /\ value[1] \in {"PLAN", "EMPTY", "NOSTEPS"}
       THEN value[1]
       ELSE "SyntaxError"

\* PlanParseThrows with the bug of accepting every text
PlanParseAccepts(text) == FALSE

\* JSON.parse(cleanJson) throws
PlanParseThrows(text) == JsonParse(cleanJson(text)) = "SyntaxError"

\* plan.steps.forEach (printPlan) and plan.steps.length (planThenExecute)
\* throw a TypeError when the parsed value has no steps
PrintPlanThrows(text) == JsonParse(cleanJson(text)) = "NOSTEPS"

-----------------------------------------------------------------------------
(* The handler tables, as objects that could be written to. *)

\* the skills createAgent is called with in main()
Skills == <<"filesystem", "bash", "math">>

\* the keys of each skill's handlers object
SkillHandlers(skill) ==
    CASE skill = "filesystem" -> {"read_file", "write_file", "list_dir"}
      [] skill = "bash" -> {"run_bash"}
      [] skill = "math" -> {"calculate"}

\* the table objects of a program, by name: the skills' handlers objects of
\* 05-skills, the toolHandlers object of the others
Registry(p) ==
    IF p = "skillsAgent"
    THEN [t \in {Skills[n] : n \in 1..Len(Skills)} |-> SkillHandlers(t)]
    ELSE [t \in {"toolHandlers"} |-> toolHandlers(p)]

\* AssignTarget with the bug of Object.assign(...skills.map(s => s.handlers)):
\* the first skill's table is the target
AssignTargetFirstSkill(p) == IF p = "skillsAgent" THEN Skills[1] ELSE "fresh"

\* the first argument of Object.assign in createAgent: a new object
AssignTarget(p) == "fresh"

\* the tables after createAgent merged them: Object.assign writes every key
\* of the sources into its target
createAgent(registry) ==
    IF AssignTarget(prog) = "fresh" THEN registry
    ELSE [registry EXCEPT ![AssignTarget(prog)] =
              UNION {registry[t] : t \in DOMAIN registry}]

-----------------------------------------------------------------------------
(* Values that stand for "nothing". *)

NoContext ==
    [reason |-> <<"none", NoId>>, completedSteps |-> <<"none", NoId>>,
     discoveries |-> <<"none", NoId>>]

NoPlanRequest ==
    [previousPlan |-> 0, completedSteps |-> <<"none", NoId>>,
     discoveries |-> <<"none", NoId>>]

\* nothing was typed yet
NoAnswer == [id |-> NoId, answer |-> "none", newPath |-> "none"]

\* readline.createInterface(...): open, nothing asked
RlOpen == [closed |-> 0, askedAfterClose |-> FALSE]

\* every loop variable before the program has done anything
AtStart ==
    /\ messages = <<>>
    /\ iteration = 0
    /\ idx = 0
    /\ requests = 0
    /\ invocations = <<>>
    /\ result = "none"
    /\ ended = "no"
    /\ plan = 0
    /\ replanCount = 0
    /\ replanContext = NoContext
    /\ planCalls = <<0, 0>>
    /\ attempts = 0
    /\ outcome = "running"
    /\ toolCalls = <<>>
    /\ planRequest = NoPlanRequest
    /\ planText = <<>>
    /\ written = <<>>
    /\ answered = NoAnswer
    /\ rl = RlOpen

Init ==
    /\ prog \in Programs
    /\ pc = "start"
    /\ AtStart
    /\ deviated = FALSE
    /\ handlers = createAgent(Registry(prog))
    /\ input = "none"
    /\ output = "none"
    /\ given = "task"

-----------------------------------------------------------------------------
(* The iteration loop. *)

\* LoopContinues with the off-by-one bug `iteration <= N`
LoopContinuesInclusive(p, it) == it <= MaxIterations(p)

\* while (iteration < N)
LoopContinues(p, it) == it < MaxIterations(p)

\* NoToolCalls with the bug of testing only `!message.tool_calls`: an empty
\* array is not a final answer
NoToolCallsMissingOnly(calls) == FALSE

\* NoToolCalls with the bug of `length <= 1`: a response with one tool call
\* is taken for a text response
NoToolCallsAtMostOne(calls) == Len(calls) <= 1

\* if (!message.tool_calls?.length)
NoToolCalls(calls) == Len(calls) = 0

\* what each loop returns after a response without tool calls
FinalResult(p) ==
    CASE p \in {"agentLoop", "skillsAgent"} -> "message.content"
      [] p = "adaptiveAgent" -> "completed"
      [] OTHER -> "undefined"

\* LimitResult with the bug of a status of its own for the used-up ceiling
LimitResultOwnStatus(p) ==
    CASE p = "adaptiveAgent" -> "iteration_limit"
      [] OTHER -> "undefined"

\* what each loop returns when its while condition fails
LimitResult(p) ==
    CASE p = "adaptiveAgent" -> "completed"
      [] OTHER -> "undefined"

\* the task the loop was called with
TaskText == given

\* InitialMessages with the bug of executing the first plan again after a
\* replan
InitialMessagesFirstPlan(p, v) == <<SystemTurn(p, 1), UserTurn(TaskText)>>

\* InitialMessages with the bug of carrying the turns of the transcript so
\* far into the new one
InitialMessagesCarryOver(p, v) ==
    <<SystemTurn(p, v), UserTurn("task")>> \o SubSeq(messages, 3, Len(messages))

\* the messages array a loop starts with
InitialMessages(p, v) == <<SystemTurn(p, v), UserTurn(TaskText)>>

\* the loop function returns `res`: adaptiveAgent resumes after its await,
\* every other program is over
Return(res, why) ==
    /\ result' = res
    /\ ended' = why
    /\ IF prog = "adaptiveAgent"
       THEN pc' = "returned" /\ UNCHANGED outcome
       ELSE pc' = "done" /\ outcome' = "returned"

\* the pc values at which a prompt of ask() is waiting for the user
Prompts == {"ask", "ask path", "follow", "ask task"}

\* rlCloses with the return after the close of the empty follow-up missing:
\* the close after the loop runs too
rlClosesNoReturn(why) ==
    CASE why = "user" -> 2
      [] why = "limit" -> 1
      [] why = "usage" -> 1
      [] OTHER -> 0

\* the rl.close() calls on each way out of 08-interactive-agent: after an
\* empty follow-up, after the while loop, in the default case of main;
\* none when an exception leaves the loop
rlCloses(why) ==
    CASE why = "user" -> 1
      [] why = "limit" -> 1
      [] why = "usage" -> 1
      [] OTHER -> 0

\* the way out taken by the step that ends the program
ExitOf ==
    IF prog = "main"
    THEN IF input.file = "08-interactive-agent" THEN "usage" ELSE "none"
    ELSE IF prog = "interactiveAgent" THEN ended' ELSE "none"

\* what a step does to the readline interface: the step that ends the
\* program closes it, a step that stops at a prompt has called ask()
RlStep ==
    rl' = [closed |-> rl.closed +
                      (IF pc # "done" /\ pc' = "done"
                       THEN rlCloses(ExitOf) ELSE 0),
           askedAfterClose |-> (rl.askedAfterClose
                                \/ (pc' \in Prompts /\ rl.closed > 0))]

\* the top of the while loop, reached with iteration = it: either the next
\* decision request is sent or the loop is over
WhileHead(it) ==
    IF LoopContinues(prog, it)
    THEN /\ iteration' = it + 1
         /\ requests' = requests + 1
         /\ pc' = "await"
         /\ UNCHANGED <<result, ended, outcome>>
    ELSE /\ iteration' = it
         /\ UNCHANGED requests
         /\ Return(LimitResult(prog), "limit")

\* an exception nothing catches: the async function rejects
Throw ==
    /\ pc' = "done"
    /\ result' = "thrown"
    /\ ended' = "fault"
    /\ outcome' = "thrown"

\* main() of each program: the loops without a planning phase build their
\* transcript and send the first request; the planning programs ask for a plan
Start ==
    /\ pc = "start"
    /\ IF prog \in {"planThenExecute", "adaptiveAgent"}
       THEN /\ pc' = "plan"
            /\ planCalls' = <<1, 0>>
            /\ UNCHANGED <<messages, iteration, requests, result, ended,
                           outcome>>
       ELSE /\ messages' = InitialMessages(prog, 0)
            /\ requests' = 1
            /\ iteration' = 1
            /\ pc' = "await"
            /\ UNCHANGED <<planCalls, result, ended, outcome>>
    /\ UNCHANGED <<prog, idx, invocations, plan, replanCount, replanContext,
                   attempts, toolCalls, planRequest, deviated, planText,
                   written,
                   answered, handlers, input,
                output, given>>
    /\ RlStep

\* the plan request is answered.  planThenExecute catches a parse failure
\* and returns; createPlan lets it escape through adaptiveAgent.  With a
\* value that has steps, the execution loop starts and sends its first
\* request; a value without steps makes the printing of the plan throw.
PlanResponse(text) ==
    /\ pc = "plan"
    /\ RoutinePlanText(text) \/ ~deviated
    /\ deviated' = (deviated \/ ~RoutinePlanText(text))
    /\ planText' = cleanJson(text)
    /\ planRequest' = NoPlanRequest
    /\ IF PlanParseThrows(text)
       THEN /\ pc' = "done"
            /\ outcome' = IF prog = "adaptiveAgent" THEN "thrown"
                          ELSE "plan not parsed"
            /\ UNCHANGED <<messages, iteration, requests, plan, attempts,
                           result, ended, invocations, toolCalls>>
       ELSE IF PrintPlanThrows(text)
       THEN /\ pc' = "done"
            /\ outcome' = "thrown"
            /\ UNCHANGED <<messages, iteration, requests, plan, attempts,
                           result, ended, invocations, toolCalls>>
       ELSE /\ plan' = plan + 1
            /\ attempts' = attempts + 1
            /\ messages' = InitialMessages(prog, plan + 1)
            /\ iteration' = 1
            /\ requests' = 1
            /\ pc' = "await"
            /\ result' = "none"
            /\ ended' = "no"
            /\ invocations' = <<>>
            /\ toolCalls' = <<>>
            /\ UNCHANGED outcome
    /\ UNCHANGED <<prog, idx, replanCount, replanContext, planCalls, written,
                   answered, handlers, input,
                output, given>>
    /\ RlStep

\* the decision request is answered with `calls` (no calls: a final text)
ServiceResponse(calls) ==
    /\ pc = "await"
    /\ Routine(prog, calls) \/ ~deviated
    /\ deviated' = (deviated \/ ~Routine(prog, calls))
    /\ toolCalls' = WithIds(calls, iteration)
    /\ messages' = Append(messages, AssistantTurn(WithIds(calls, iteration)))
    /\ IF NoToolCalls(calls)
       THEN /\ idx' = 0
            /\ UNCHANGED <<iteration, requests>>
            /\ IF prog = "interactiveAgent"
               THEN pc' = "follow" /\ UNCHANGED <<result, ended, outcome>>
               ELSE Return(FinalResult(prog), "final")
       ELSE IF Len(calls) = 0
       THEN /\ idx' = 0
            /\ WhileHead(iteration)
       ELSE /\ idx' = 1
            /\ pc' = "calls"
            /\ UNCHANGED <<iteration, requests, result, ended, outcome>>
    /\ UNCHANGED <<prog, invocations, plan, replanCount, replanContext,
                   planCalls, attempts, planRequest, planText, written,
                   answered, handlers, input,
                output, given>>
    /\ RlStep

\* n copies of id
Times(id, n) == [k \in 1..n |-> id]

\* after the push for call number idx: the next call, or the loop's head
AfterPush ==
    IF idx < Len(toolCalls)
    THEN /\ idx' = idx + 1
         /\ pc' = "calls"
         /\ UNCHANGED <<iteration, requests, result, ended, outcome>>
    ELSE /\ idx' = 0
         /\ WhileHead(iteration)

\* the files a synchronous write_file handler wrote during one pass: one
\* writeFileSync per invocation whose operation did not fail
SyncWrites(call, e) ==
    IF call.name = "write_file" /\ ~e.fault /\ ~e.suspend
    THEN SelectSeq([n \in 1..e.invoked |->
                       [id |-> call.id, path |-> "requested path"]],
                   LAMBDA w : ~OperationFails(call.args, 1))
    ELSE <<>>

\* one pass through the for-body, for call number idx
ToolCallStep ==
    /\ pc = "calls"
    /\ LET call == toolCalls[idx]
           e == ToolCallBody(prog, call)
       IN /\ invocations' = invocations \o Times(call.id, e.invoked)
          /\ written' = written \o SyncWrites(call, e)
          /\ IF e.fault
             THEN /\ Throw
                  /\ UNCHANGED <<messages, idx, iteration, requests,
                                 replanContext>>
             ELSE IF e.suspend
             THEN /\ pc' = "ask"
                  /\ UNCHANGED <<messages, idx, iteration, requests, result,
                                 ended, outcome, replanContext>>
             ELSE IF e.exit = "hang"
             THEN /\ pc' = "hung"
                  /\ UNCHANGED <<messages, idx, iteration, requests, result,
                                 ended, outcome, replanContext>>
             ELSE /\ messages' = IF e.push
                                  THEN Append(messages, ToolTurn(call, e.content))
                                  ELSE messages
                  /\ IF e.exit = "replan"
                     THEN /\ replanContext' =
                                [reason |-> ParsedArgs(call).reason,
                                 completedSteps |-> ParsedArgs(call).completed_steps,
                                 discoveries |-> ParsedArgs(call).discoveries]
                          /\ Return("replan_requested", "replan")
                          /\ UNCHANGED <<idx, iteration, requests>>
                     ELSE /\ AfterPush
                          /\ UNCHANGED replanContext
    /\ UNCHANGED <<prog, plan, replanCount, planCalls, attempts, toolCalls,
                   planRequest, deviated, planText,
                   answered, handlers, input,
                output, given>>
    /\ RlStep

\* answer.toLowerCase()
ToLowerCase(answer) ==
    CASE answer = "Y" -> "y"
      [] answer = "EDIT" -> "edit"
      [] OTHER -> answer

\* what the user may type at "Allow? [y/n/edit]"; "de" stands for the
\* Cyrillic letter the source accepts beside y
Answers == {"y", "Y", "de", "edit", "e", "n", "yes", ""}

\* what the user may type at "New path (Enter = requested path)"
NewPaths == {"", "other path"}

\* WriteApproved with the bug of taking every answer but n for a yes
WriteApprovedUnlessNo(answer) == ToLowerCase(answer) # "n"

\* answer.toLowerCase() === "y" || answer.toLowerCase() === "д"
WriteApproved(answer) == ToLowerCase(answer) \in {"y", "de"}

\* answer.toLowerCase() === "edit" || answer.toLowerCase() === "e"
WriteEdit(answer) == ToLowerCase(answer) \in {"edit", "e"}

\* ["y", "д", "да", "yes"].includes(answer.toLowerCase()); "da" stands for
\* the Cyrillic word
Confirmed(answer) == ToLowerCase(answer) \in {"y", "de", "da", "yes"}

\* the texts ask_user_confirm returns
ConfirmText(answer) ==
    IF Confirmed(answer) THEN "User confirmed: YES" ELSE "User refused: NO"

\* the texts interactive write_file returns
WriteApprovedText == "written (approved by the user)"

WritePathChangedText(finalPath) ==
    IF finalPath = "requested path"
    THEN "written to the requested path (path changed by the user)"
    ELSE "written to the other path (path changed by the user)"

\* the user answers the prompt of an asynchronous handler.  write_file
\* writes and returns, asks for the new path, or returns the rejection; the
\* for-body pushes what the handler returned.
UserAnswer(answer) ==
    /\ pc = "ask"
    /\ answered' = IF toolCalls[idx].name = "write_file"
                   THEN [id |-> toolCalls[idx].id, answer |-> answer,
                         newPath |-> "none"]
                   ELSE answered
    /\ LET call == toolCalls[idx]
       IN IF call.name # "write_file"
          THEN /\ messages' =
                    Append(messages,
                           ToolTurn(call, IF call.name = "ask_user_confirm"
                                          THEN ConfirmText(answer)
                                          ELSE "user answered"))
               /\ AfterPush
               /\ UNCHANGED written
          ELSE IF WriteApproved(answer)
          THEN /\ written' = Append(written, [id |-> call.id,
                                              path |-> "requested path"])
               /\ messages' = Append(messages, ToolTurn(call, WriteApprovedText))
               /\ AfterPush
          ELSE IF WriteEdit(answer)
          THEN /\ pc' = "ask path"
               /\ UNCHANGED <<messages, idx, iteration, requests, result,
                              ended, outcome, written>>
          ELSE /\ messages' = Append(messages, ToolTurn(call, WriteRejected))
               /\ AfterPush
               /\ UNCHANGED written
    /\ UNCHANGED <<prog, invocations, plan, replanCount, replanContext,
                   planCalls, attempts, toolCalls, planRequest, deviated,
                   planText, handlers, input,
                output, given>>
    /\ RlStep

\* the user answers write_file's second prompt: finalPath = newPath || path
NewPathAnswer(newPath) ==
    /\ pc = "ask path"
    /\ answered' = [answered EXCEPT !.newPath = newPath]
    /\ LET call == toolCalls[idx]
           finalPath == IF newPath = "" THEN "requested path" ELSE newPath
       IN /\ written' = Append(written, [id |-> call.id, path |-> finalPath])
          /\ messages' = Append(messages,
                                ToolTurn(call, WritePathChangedText(finalPath)))
          /\ AfterPush
    /\ UNCHANGED <<prog, invocations, plan, replanCount, replanContext,
                   planCalls, attempts, toolCalls, planRequest, deviated,
                   planText, handlers, input,
                output, given>>
    /\ RlStep

\* interactiveAgent after a text response: an empty follow-up ends the run,
\* any other is pushed as a user turn and the loop continues
FollowUp(text) ==
    /\ pc = "follow"
    /\ IF text = ""
       THEN /\ pc' = "done"
            /\ result' = "undefined"
            /\ ended' = "user"
            /\ outcome' = "returned"
            /\ UNCHANGED <<messages, iteration, requests, deviated>>
       ELSE /\ ~deviated
            /\ deviated' = TRUE
            /\ messages' = Append(messages, UserTurn(text))
            /\ WhileHead(iteration)
    /\ UNCHANGED <<prog, idx, invocations, plan, replanCount, replanContext,
                   planCalls, attempts, toolCalls, planRequest, planText,
                   written,
                   answered, handlers, input,
                output, given>>
    /\ RlStep

\* the two `return;` of adaptiveAgent: the promise resolves with undefined
adaptiveAgentReturn == "undefined"

\* ReplanLimitReached with the off-by-one bug `replanCount >= MAX_REPLANS`
ReplanLimitReachedEarly(count) == count >= MAX_REPLANS

\* ReplanLimitReached with the bug of never giving up
ReplanLimitReachedNever(count) == FALSE

\* if (replanCount > MAX_REPLANS), tested after replanCount++
ReplanLimitReached(count) == count > MAX_REPLANS

\* RevisionContext with the bug of passing the two lists in each other's place
RevisionContextSwapped(previousPlan, context) ==
    [previousPlan |-> previousPlan,
     completedSteps |-> context.discoveries,
     discoveries |-> context.completedSteps]

\* the context adaptiveAgent hands to createPlan for a replan
RevisionContext(previousPlan, context) ==
    [previousPlan |-> previousPlan,
     completedSteps |-> context.completedSteps,
     discoveries |-> context.discoveries]

\* adaptiveAgent resumes after `await executeWithReact(task, plan)`
adaptiveAgentResume ==
    /\ pc = "returned"
    /\ IF result = "completed"
       THEN /\ pc' = "done"
            /\ outcome' = "done"
            /\ output' = adaptiveAgentReturn
            /\ UNCHANGED <<replanCount, planCalls, planRequest>>
       ELSE /\ replanCount' = replanCount + 1
            /\ IF ReplanLimitReached(replanCount + 1)
               THEN /\ pc' = "done"
                    /\ outcome' = "aborted"
                    /\ output' = adaptiveAgentReturn
                    /\ UNCHANGED <<planCalls, planRequest>>
               ELSE /\ pc' = "plan"
                    /\ planCalls' = <<planCalls[1], planCalls[2] + 1>>
                    /\ planRequest' = RevisionContext(plan, replanContext)
                    /\ UNCHANGED <<outcome, output>>
    /\ replanContext' = NoContext
    /\ UNCHANGED <<prog, messages, iteration, idx, requests, invocations,
                   result, ended, plan, attempts, toolCalls, deviated,
                   planText, written,
                   answered, handlers, input, given>>
    /\ RlStep

Next ==
    \/ Start
    \/ \E text \in PlanTexts : PlanResponse(text)
    \/ \E calls \in Responses(prog) : ServiceResponse(calls)
    \/ ToolCallStep
    \/ \E answer \in Answers : UserAnswer(answer)
    \/ \E newPath \in NewPaths : NewPathAnswer(newPath)
    \/ \E text \in {"", "more"} : FollowUp(text)
    \/ adaptiveAgentResume

Spec == Init /\ [][Next]_vars

\* the run of 07-adaptive-agent alone
InitAdaptive == Init /\ prog = "adaptiveAgent"

NextAdaptive ==
    \/ Start
    \/ \E text \in PlanTexts : PlanResponse(text)
    \/ \E calls \in Responses(prog) : ServiceResponse(calls)
    \/ ToolCallStep
    \/ adaptiveAgentResume

SpecAdaptive == InitAdaptive /\ [][NextAdaptive]_vars

\* the same run when the service answers every request and the event loop
\* runs every continuation that is ready
SpecAdaptiveFair == SpecAdaptive /\ WF_vars(NextAdaptive)

\* ---------------------------------------------------------------------
\* The programs from their command line: main of 06-planning and of
\* 08-interactive-agent, the module body of 07-adaptive-agent
\* ---------------------------------------------------------------------
Files == {"06-planning", "07-adaptive-agent", "08-interactive-agent"}

\* process.argv[2]: absent, the empty string, the words the programs know,
\* another word
Argv == {"absent", "", "plan", "react", "project", "refactor", "free", "other"}

\* what the user types when the free scenario asks for the task, trimmed
TypedTasks == {"typed task", ""}

\* Nullish with the bug of writing || for ??: the empty string also gives
\* the default
NullishOrFalsy(v, d) == IF v \in {"absent", ""} THEN d ELSE v

\* v ?? d
Nullish(v, d) == IF v = "absent" THEN d ELSE v

\* v || d
OrElse(v, d) == IF v \in {"absent", ""} THEN d ELSE v

\* const approach = process.argv[2] ?? "plan"
approach(argv) == Nullish(argv, "plan")

\* const scenario = process.argv[2] ?? "project"
scenario(argv) == Nullish(argv, "project")

\* const task = process.argv[2] || "<the analysis task>"
task(argv) == OrElse(argv, "default task")

\* the service and the user keep to their routine here: what is looked at
\* is the choice main makes
InitMain ==
    /\ prog = "main"
    /\ pc = "main"
    /\ AtStart
    /\ deviated = TRUE
    /\ handlers = << >>
    /\ input \in [file : Files, argv : Argv]
    /\ output = "none"
    /\ given = "none"

\* the loop is called with a task
CallLoop(p, text) ==
    /\ prog' = p
    /\ given' = text
    /\ handlers' = createAgent(Registry(p))
    /\ pc' = "start"
    /\ UNCHANGED <<result, outcome>>

\* console.log of the usage line; main returns
Usage ==
    /\ result' = "usage"
    /\ outcome' = "returned"
    /\ pc' = "done"
    /\ UNCHANGED <<prog, given, handlers>>

\* main() up to its first await
main ==
    /\ pc = "main"
    /\ CASE input.file = "06-planning" ->
              IF approach(input.argv) = "plan"
              THEN CallLoop("planThenExecute", "task")
              ELSE IF approach(input.argv) = "react"
              THEN CallLoop("reactAgent", "task")
              ELSE Usage
         [] input.file = "07-adaptive-agent" ->
              CallLoop("adaptiveAgent", task(input.argv))
         [] input.file = "08-interactive-agent" ->
              CASE scenario(input.argv) = "project" ->
                     CallLoop("interactiveAgent", "project task")
                [] scenario(input.argv) = "refactor" ->
                     CallLoop("interactiveAgent", "refactor task")
                [] scenario(input.argv) = "free" ->
                     /\ pc' = "ask task"
                     /\ UNCHANGED <<prog, given, handlers, result, outcome>>
                [] OTHER -> Usage
    /\ UNCHANGED <<messages, iteration, idx, requests, invocations, ended,
                   plan, replanCount, replanContext, planCalls, attempts,
                   toolCalls, planRequest, deviated, planText, written,
                   answered, input, output>>
    /\ RlStep

\* const task = await ask("> "); await interactiveAgent(task)
TaskTyped(text) ==
    /\ pc = "ask task"
    /\ CallLoop("interactiveAgent", text)
    /\ UNCHANGED <<messages, iteration, idx, requests, invocations, ended,
                   plan, replanCount, replanContext, planCalls, attempts,
                   toolCalls, planRequest, deviated, planText, written,
                   answered, input, output>>
    /\ RlStep

\* main, then the loop it called
NextMain ==
    \/ main
    \/ \E text \in TypedTasks : TaskTyped(text)
    \/ prog \in Programs /\ Next

SpecMain == InitMain /\ [][NextMain]_vars

-----------------------------------------------------------------------------
(* Two runs of one agent at the same time: agentLoop of 04-real-tools or   *)
(* the run function createAgent returned, called twice without awaiting    *)
(* the first call.  The runs interleave at their awaits; they share the    *)
(* handler tables and the service.  Here pc, messages, iteration, idx,     *)
(* requests, invocations, result, ended and toolCalls hold one value per   *)
(* run.                                                                    *)

Runs == {1, 2}

ConcurrentPrograms == {"realTools", "skillsAgent"}

\* the userMessage argument of each call
TaskOf(r) == IF r = 1 THEN "task 1" ELSE "task 2"

\* TranscriptOf with the bug of one messages array at module level
TranscriptOfShared(r) == 1

\* `const messages = [...]` is a local of agentLoop / run: each call has its
\* own array
TranscriptOf(r) == r

\* what the service answers a run with
ConcurrentResponses(p) ==
    {<<>>, <<RoutineCall(p)>>, <<RoutineCall(p), RoutineCall(p)>>,
     <<Call("no_such_tool", "ok")>>, <<Call("run_bash", "malformed")>>}

InitConcurrent ==
    /\ prog \in ConcurrentPrograms
    /\ pc = [r \in Runs |-> "start"]
    /\ messages = [r \in Runs |-> <<>>]
    /\ iteration = [r \in Runs |-> 0]
    /\ idx = [r \in Runs |-> 0]
    /\ requests = [r \in Runs |-> 0]
    /\ invocations = [r \in Runs |-> <<>>]
    /\ result = [r \in Runs |-> "none"]
    /\ ended = [r \in Runs |-> "no"]
    /\ toolCalls = [r \in Runs |-> <<>>]
    /\ plan = 0
    /\ replanCount = 0
    /\ replanContext = NoContext
    /\ planCalls = <<0, 0>>
    /\ attempts = 0
    /\ outcome = "running"
    /\ planRequest = NoPlanRequest
    /\ deviated = FALSE
    /\ planText = <<>>
    /\ written = <<>>
    /\ answered = NoAnswer
    /\ handlers = createAgent(Registry(prog))
    /\ input = "none"
    /\ output = "none"
    /\ given = "task"
    /\ rl = RlOpen

\* what no step of a run touches
ConcurrentFrame ==
    UNCHANGED <<prog, plan, replanCount, replanContext, planCalls, attempts,
                outcome, planRequest, planText, written, answered, handlers, input,
                output, given, rl>>

\* run r is called: it builds its transcript and sends its first request
RunStart(r) ==
    /\ pc[r] = "start"
    /\ messages' = [messages EXCEPT ![TranscriptOf(r)] =
                       <<SystemTurn(prog, 0), UserTurn(TaskOf(r))>>]
    /\ iteration' = [iteration EXCEPT ![r] = 1]
    /\ requests' = [requests EXCEPT ![r] = 1]
    /\ pc' = [pc EXCEPT ![r] = "await"]
    /\ UNCHANGED <<idx, invocations, result, ended, toolCalls, deviated>>
    /\ ConcurrentFrame

\* the top of run r's while loop
RunWhileHead(r) ==
    IF LoopContinues(prog, iteration[r])
    THEN /\ iteration' = [iteration EXCEPT ![r] = iteration[r] + 1]
         /\ requests' = [requests EXCEPT ![r] = requests[r] + 1]
         /\ pc' = [pc EXCEPT ![r] = "await"]
         /\ UNCHANGED <<result, ended>>
    ELSE /\ pc' = [pc EXCEPT ![r] = "done"]
         /\ result' = [result EXCEPT ![r] = LimitResult(prog)]
         /\ ended' = [ended EXCEPT ![r] = "limit"]
         /\ UNCHANGED <<iteration, requests>>

\* the request of run r is answered
RunResponse(r, calls) ==
    /\ pc[r] = "await"
    /\ Routine(prog, calls) \/ ~deviated
    /\ deviated' = (deviated \/ ~Routine(prog, calls))
    /\ toolCalls' = [toolCalls EXCEPT ![r] = WithIds(calls, <<r, iteration[r]>>)]
    /\ messages' = [messages EXCEPT ![TranscriptOf(r)] =
                       Append(@, AssistantTurn(WithIds(calls, <<r, iteration[r]>>)))]
    /\ IF NoToolCalls(calls)
       THEN /\ pc' = [pc EXCEPT ![r] = "done"]
            /\ result' = [result EXCEPT ![r] = FinalResult(prog)]
            /\ ended' = [ended EXCEPT ![r] = "final"]
            /\ UNCHANGED idx
       ELSE /\ pc' = [pc EXCEPT ![r] = "calls"]
            /\ idx' = [idx EXCEPT ![r] = 1]
            /\ UNCHANGED <<result, ended>>
    /\ UNCHANGED <<iteration, requests, invocations>>
    /\ ConcurrentFrame

\* one pass of run r through its for-body
RunToolCall(r) ==
    /\ pc[r] = "calls"
    /\ LET call == toolCalls[r][idx[r]]
           e == ToolCallBody(prog, call)
       IN /\ invocations' = [invocations EXCEPT ![r] = @ \o Times(call.id, e.invoked)]
          /\ IF e.fault
             THEN /\ pc' = [pc EXCEPT ![r] = "done"]
                  /\ result' = [result EXCEPT ![r] = "thrown"]
                  /\ ended' = [ended EXCEPT ![r] = "fault"]
                  /\ UNCHANGED <<messages, idx, iteration, requests>>
             ELSE /\ messages' = [messages EXCEPT ![TranscriptOf(r)] =
                                     Append(@, ToolTurn(call, e.content))]
                  /\ IF idx[r] < Len(toolCalls[r])
                     THEN /\ idx' = [idx EXCEPT ![r] = idx[r] + 1]
                          /\ UNCHANGED <<pc, iteration, requests, result, ended>>
                     ELSE /\ idx' = [idx EXCEPT ![r] = 0]
                          /\ RunWhileHead(r)
    /\ UNCHANGED <<toolCalls, deviated>>
    /\ ConcurrentFrame

NextConcurrent ==
    \/ \E r \in Runs : RunStart(r)
    \/ \E r \in Runs : \E calls \in ConcurrentResponses(prog) : RunResponse(r, calls)
    \/ \E r \in Runs : RunToolCall(r)

SpecConcurrent == InitConcurrent /\ [][NextConcurrent]_vars

-----------------------------------------------------------------------------
(* createAgent on its own: it is called with a list of skills and merges   *)
(* their tools and handlers.  The skills are those of 05-skills and one    *)
(* more that a caller may define, "shell", which declares run_bash and     *)
(* list_dir as well.                                                       *)

SkillUniverse == {"filesystem", "bash", "math", "shell"}

\* skill.tools, by name, in the order of the array
SkillTools(skill) ==
    CASE skill = "filesystem" -> <<"read_file", "write_file", "list_dir">>
      [] skill = "bash" -> <<"run_bash">>
      [] skill = "math" -> <<"calculate">>
      [] skill = "shell" -> <<"run_bash", "list_dir">>

\* the lists of skills createAgent is called with
SkillLists == UNION {[1..n -> SkillUniverse] : n \in 0..MaxSkills}

\* skills.flatMap(s => s.tools): every descriptor, with the position of the
\* skill it came from
RECURSIVE allTools(_)
allTools(skills) ==
    IF skills = <<>> THEN <<>>
    ELSE LET n == Len(skills)
             last == SkillTools(skills[n])
         IN allTools(SubSeq(skills, 1, n - 1)) \o
            [k \in 1..Len(last) |-> [name |-> last[k], skill |-> n]]

\* the names a list of skills declares
DeclaredNames(skills) ==
    UNION {{SkillTools(skills[n])[k] : k \in 1..Len(SkillTools(skills[n]))} :
           n \in 1..Len(skills)}

\* Object.assign({}, ...skills.map(s => s.handlers)): for every name the
\* handler of the last skill that has it
allHandlers(skills) ==
    [name \in DeclaredNames(skills) |->
        CHOOSE n \in 1..Len(skills) :
            /\ \E k \in 1..Len(SkillTools(skills[n])) : SkillTools(skills[n])[k] = name
            /\ \A m \in (n + 1)..Len(skills) :
                  \A k \in 1..Len(SkillTools(skills[m])) :
                      SkillTools(skills[m])[k] # name]

InitRegistry ==
    /\ prog = "skillsAgent"
    /\ pc = "start"
    /\ AtStart
    /\ deviated = FALSE
    /\ handlers = createAgent(Registry(prog))
    /\ input \in SkillLists
    /\ output = "none"
    /\ given = "task"

\* what a function run on its own leaves alone
FunctionFrame ==
    UNCHANGED <<prog, messages, iteration, idx, requests, invocations, result,
                ended, plan, replanCount, replanContext, planCalls, attempts,
                toolCalls, planRequest, deviated, planText, written, answered,
                handlers, input, given, rl>>

\* createAgent(skills) returns: it has built both tables and thrown nothing
createAgentCall ==
    /\ pc = "start"
    /\ output = "none"
    /\ output' = [error |-> "none", allTools |-> allTools(input),
                  allHandlers |-> allHandlers(input)]
    /\ pc' = "done"
    /\ outcome' = "returned"
    /\ FunctionFrame

NextRegistry == createAgentCall

SpecRegistry == InitRegistry /\ [][NextRegistry]_vars

\* ---------------------------------------------------------------------
\* The plan parser on its own: cleanJson and JSON.parse of createPlan and
\* planThenExecute, applied to any text of the service
\* ---------------------------------------------------------------------
TextTokens == {"fence", "json", "nl", "PLAN", "prose"}
Texts == UNION {[1..n -> TextTokens] : n \in 0..MaxTokens}

InitPlanText ==
    /\ prog = "adaptiveAgent"
    /\ pc = "start"
    /\ AtStart
    /\ deviated = FALSE
    /\ handlers = createAgent(Registry(prog))
    /\ input \in Texts
    /\ output = "none"
    /\ given = "task"

\* const cleanJson = text.replace(..).replace(..).trim();
\* return JSON.parse(cleanJson);
parsePlanText ==
    /\ pc = "start"
    /\ output = "none"
    /\ output' = [cleanJson |-> cleanJson(input),
                  plan |-> JsonParse(cleanJson(input))]
    /\ pc' = "done"
    /\ outcome' = IF PlanParseThrows(input) THEN "thrown" ELSE "returned"
    /\ FunctionFrame

NextPlanText == parsePlanText

SpecPlanText == InitPlanText /\ [][NextPlanText]_vars

\* ---------------------------------------------------------------------
\* A handler on its own, called twice with the same arguments while the
\* files and the commands' behaviour stay as they are
\* ---------------------------------------------------------------------
Clock == 1..MaxClock

\* the values Math.random() may give, as String() prints them
Draws == {"0.25", "0.75"}

\* get_time: `Now in ${city}: ${now.toLocaleTimeString("ru-RU")}`
get_time(city, now) == <<"time", city, now>>

\* calculate: String(eval(expression)), the catch branch when eval throws;
\* the expressions are an arithmetic one, one that throws, Math.random()
\* and a missing one (eval(undefined) is undefined)
calculate(expression, draw) ==
    CASE expression = "random" -> draw
      [] expression = "throws" -> HandlerError
      [] expression = "empty" -> "undefined"
      [] OTHER -> "output"

\* the arguments each handler is tried with
ArgsOf(name) ==
    CASE name \in {"get_weather", "get_time"} -> Cities \cup {"empty"}
      [] name = "calculate" -> {"ok", "throws", "random", "empty"}
      [] name \in {"run_bash", "list_dir"} -> {"ok", "empty", "hangs"}
      [] OTHER -> {"ok", "empty"}

\* the texts a handler may return for the same arguments and the same
\* files, at a clock reading from `since` on
HandlerResults(p, name, args, since) ==
    CASE name = "get_time" -> {get_time(args, now) : now \in since..MaxClock}
      [] name = "calculate" -> {calculate(args, draw) : draw \in Draws}
      [] OTHER -> {HandlerReturn(p, name, args, 1)}

\* the handlers that are plain functions of their arguments
SyncHandlers(p) ==
    IF p = "interactiveAgent" THEN toolHandlers(p) \ AsyncHandlers
    ELSE toolHandlers(p)

InitHandler ==
    /\ prog \in Programs
    /\ pc = "start"
    /\ AtStart
    /\ deviated = FALSE
    /\ handlers = createAgent(Registry(prog))
    /\ input \in {[name |-> name, args |-> args] :
                      name \in SyncHandlers(prog), args \in Args}
    /\ input.args \in ArgsOf(input.name)
    /\ output = <<>>
    /\ given = "task"

\* the clock does not go back between the two calls
ClockSince ==
    IF output # <<>> /\ input.name = "get_time" THEN output[1][3] ELSE 1

\* handler(args), for the first and for the second time
handlerCall ==
    /\ pc = "start"
    /\ ~NeverReturns(input.name, input.args)
    /\ \E text \in HandlerResults(prog, input.name, input.args, ClockSince) :
          output' = Append(output, text)
    /\ pc' = IF Len(output) = 1 THEN "done" ELSE "start"
    /\ outcome' = IF Len(output) = 1 THEN "returned" ELSE "running"
    /\ FunctionFrame

NextHandler == handlerCall

SpecHandler == InitHandler /\ [][NextHandler]_vars

\* ---------------------------------------------------------------------
\* ask_user_choice on its own: the handler of 08-interactive-agent, called
\* with any number of options and answered with any short text
\* ---------------------------------------------------------------------
\* the characters of an answer (ask has trimmed it)
AnswerChars == {"1", "2", "3", "a", "-"}
ChoiceAnswers == UNION {[1..n -> AnswerChars] : n \in 0..MaxAnswer}

Digits == {"0", "1", "2", "3", "4", "5", "6", "7", "8", "9"}
DigitValue(c) ==
    CASE c = "0" -> 0 [] c = "1" -> 1 [] c = "2" -> 2 [] c = "3" -> 3
      [] c = "4" -> 4 [] c = "5" -> 5 [] c = "6" -> 6 [] c = "7" -> 7
      [] c = "8" -> 8 [] c = "9" -> 9

\* the value of the longest prefix of digits of t, after the digits read so
\* far gave acc
RECURSIVE LeadingDigits(_, _)
LeadingDigits(t, acc) ==
    IF t = <<>> \/ t[1] \notin Digits THEN acc
    ELSE LeadingDigits(Tail(t), 10 * acc + DigitValue(t[1]))

\* a JavaScript number: NaN or an integer
NaN == [nan |-> TRUE, value |-> 0]
Num(n) == [nan |-> FALSE, value |-> n]

\* parseInt(answer): an optional sign and the digits that follow it, the
\* rest of the text ignored; NaN when no digit follows
parseInt(t) ==
    LET body == IF t # <<>> /\ t[1] \in {"-", "+"} THEN Tail(t) ELSE t
        sign == IF t # <<>> /\ t[1] = "-" THEN -1 ELSE 1
    IN IF body = <<>> \/ body[1] \notin Digits THEN NaN
       ELSE Num(sign * LeadingDigits(body, 0))

\* num === options.length + 1 (false for NaN)
NumIs(num, n) == ~num.nan /\ num.value = n

\* num >= 1 && num <= options.length (false for NaN)
NumInRange(num, n) == ~num.nan /\ num.value >= 1 /\ num.value <= n

InitChoice ==
    /\ prog = "interactiveAgent"
    /\ pc = "start"
    /\ AtStart
    /\ deviated = FALSE
    /\ handlers = createAgent(Registry(prog))
    /\ input \in [options : 0..MaxOptions, allow_custom : BOOLEAN,
                   answer : ChoiceAnswers]
    /\ output = "none"
    /\ given = "task"

\* ask_user_choice from the answer of its first prompt to its return, or to
\* its second prompt
ask_user_choice ==
    /\ pc = "start"
    /\ LET num == parseInt(input.answer)
       IN IF input.allow_custom /\ NumIs(num, input.options + 1)
          THEN /\ pc' = "ask custom"
               /\ UNCHANGED <<output, outcome>>
          ELSE /\ pc' = "done"
               /\ outcome' = "returned"
               /\ output' = IF NumInRange(num, input.options)
                            THEN [kind |-> "chose", option |-> num.value,
                                  text |-> <<>>]
                            ELSE [kind |-> "answered", option |-> 0,
                                  text |-> input.answer]
    /\ FunctionFrame

\* const custom = await ask(...); return `... own variant: "${custom}"`
customTyped(custom) ==
    /\ pc = "ask custom"
    /\ pc' = "done"
    /\ outcome' = "returned"
    /\ output' = [kind |-> "custom", option |-> 0, text |-> custom]
    /\ FunctionFrame

NextChoice ==
    \/ ask_user_choice
    \/ \E custom \in ChoiceAnswers : customTyped(custom)

SpecChoice == InitChoice /\ [][NextChoice]_vars

-----------------------------------------------------------------------------
(* Reading the transcript. *)

Indexes == 1..Len(messages)
AssistantIndexes == {i \in Indexes : messages[i].role = "assistant"}
ToolIndexes == {i \in Indexes : messages[i].role = "tool"}

\* the most recent assistant turn before position i (0: none)
RECURSIVE AssistantAtOrBefore(_)
AssistantAtOrBefore(i) ==
    IF i = 0 THEN 0
    ELSE IF messages[i].role = "assistant" THEN i
    ELSE AssistantAtOrBefore(i - 1)

AssistantBefore(i) == AssistantAtOrBefore(i - 1)

\* the positions of the calls of assistant turn a that carry identifier id
CallsWithId(a, id) ==
    {k \in 1..Len(messages[a].calls) : messages[a].calls[k].id = id}

\* the call that the tool turn at position i answers
AnsweredCall(i) ==
    LET a == AssistantBefore(i)
    IN messages[a].calls[CHOOSE k \in CallsWithId(a, messages[i].id) : TRUE]

\* how many times the handler was invoked for the call with identifier id
InvocationsOf(id) ==
    Cardinality({n \in 1..Len(invocations) : invocations[n] = id})

-----------------------------------------------------------------------------
(* C1: every tool-result turn carries the id of exactly one tool call of   *)
(* the most recent assistant turn, that call has not been answered by an   *)
(* earlier tool-result turn, and no two tool-result turns of a transcript  *)
(* carry the same id.                                                      *)
C1_ResultsMatchUnansweredCalls ==
    LET results == ToolIndexes
    IN /\ \A i \in results :
             LET a == AssistantBefore(i)
             IN /\ a > 0
                /\ Cardinality(CallsWithId(a, messages[i].id)) = 1
                /\ \A j \in (a + 1)..(i - 1) :
                      messages[j].role = "tool"
                          => messages[j].id # messages[i].id
       /\ Cardinality({messages[i].id : i \in results}) = Cardinality(results)

\* both calls of a two-call response have been answered, in a transcript
\* that already holds the answer of an earlier response
C1_Witness ==
    \E i, j \in ToolIndexes :
        /\ i + 1 < j
        /\ messages[j].id[2] = 2
        /\ messages[j - 1].id[2] = 1
        /\ messages[j - 1].role = "tool"

-----------------------------------------------------------------------------
(* C2: whenever a decision request is in flight, every tool call of every  *)
(* assistant turn of the transcript has been answered by exactly one       *)
(* tool-result turn, and the answers follow the assistant turn in the      *)
(* order of its calls.                                                     *)
AnsweredInOrder(a) ==
    LET n == Len(messages[a].calls)
    IN /\ a + n <= Len(messages)
       /\ \A k \in 1..n :
             /\ messages[a + k].role = "tool"
             /\ messages[a + k].id = messages[a].calls[k].id
       /\ a + n < Len(messages) => messages[a + n + 1].role # "tool"

C2_AnsweredBeforeNextRequest ==
    pc = "await" => \A a \in AssistantIndexes : AnsweredInOrder(a)

\* a request is in flight after a response with two calls
C2_Witness ==
    /\ pc = "await"
    /\ \E a \in AssistantIndexes : Len(messages[a].calls) = 2

-----------------------------------------------------------------------------
(* C3: a loop with ceiling N never has more than N decision requests; when *)
(* every response of the service carried at least one action request (each *)
(* with a payload that conforms to its schema, none of them a revision     *)
(* request), the loop ends only in the iteration-limit condition, and it   *)
(* has then sent exactly N decision requests.                              *)
ActionRequest(call) == Conforming(call.args) /\ call.name # "request_replan"

AlwaysRequestsActions ==
    \A a \in AssistantIndexes :
        /\ messages[a].calls # <<>>
        /\ \A k \in 1..Len(messages[a].calls) : ActionRequest(messages[a].calls[k])

C3_ExactlyCeilingRequests ==
    /\ requests <= MaxIterations(prog)
    /\ ended = "limit" => requests = MaxIterations(prog)
    /\ (ended # "no" /\ AlwaysRequestsActions) =>
          /\ ended = "limit"
          /\ requests = MaxIterations(prog)
          /\ Cardinality(AssistantIndexes) = MaxIterations(prog)

\* executeWithReact has run into its ceiling of 20, one response with two calls
C3_Witness ==
    /\ prog = "adaptiveAgent"
    /\ ended = "limit"
    /\ AlwaysRequestsActions
    /\ requests = ExecuteWithReactIterations
    /\ \E a \in AssistantIndexes : Len(messages[a].calls) = 2

-----------------------------------------------------------------------------
(* C4: in agentLoop, the skills agent, planThenExecute, reactAgent and     *)
(* executeWithReact, a first response without action requests ends the     *)
(* loop as completed: one decision request, no handler invoked, no         *)
(* tool-result turn, nothing after the assistant turn.                     *)
FirstResponseFinal ==
    /\ Len(messages) >= 3
    /\ messages[3].role = "assistant"
    /\ messages[3].calls = <<>>

C4_FinalAtOnce ==
    (prog # "interactiveAgent" /\ FirstResponseFinal) =>
        /\ ended = "final"
        /\ result = FinalResult(prog)
        /\ requests = 1
        /\ invocations = <<>>
        /\ Len(messages) = 3
        /\ pc \in {"returned", "done"}

\* executeWithReact returned after a first response that was a final text
C4_Witness ==
    /\ prog = "adaptiveAgent"
    /\ FirstResponseFinal
    /\ pc = "returned"

-----------------------------------------------------------------------------
(* C5: adaptiveAgent never asks for more than MAX_REPLANS revised plans and *)
(* never starts more than MAX_REPLANS + 1 execution attempts; it reaches    *)
(* the aborted state exactly when the attempt after the MAX_REPLANS-th      *)
(* revised plan ends with a replan request too, and it then returns instead *)
(* of throwing.                                                             *)
C5_AbortsAfterMaxReplans ==
    prog = "adaptiveAgent" =>
        /\ planCalls[2] <= MAX_REPLANS
        /\ attempts <= MAX_REPLANS + 1
        /\ outcome = "aborted" =>
              /\ planCalls[2] = MAX_REPLANS
              /\ attempts = MAX_REPLANS + 1
              /\ replanCount = MAX_REPLANS + 1
              /\ ended = "replan"
              /\ pc = "done"
        /\ (pc = "done" /\ attempts = MAX_REPLANS + 1 /\ ended = "replan") =>
              outcome = "aborted"
        /\ (pc = "plan" /\ ended = "replan") => replanCount = planCalls[2]

\* the run was aborted after four attempts
C5_Witness ==
    /\ outcome = "aborted"
    /\ attempts = MAX_REPLANS + 1
    /\ planCalls = <<1, MAX_REPLANS>>

-----------------------------------------------------------------------------
(* C6: the result a loop returns when it ran into its ceiling differs from *)
(* the result it returns after a response without tool calls.              *)
C6_LimitDistinguishable ==
    (prog # "interactiveAgent" /\ ended = "limit") => result # FinalResult(prog)

-----------------------------------------------------------------------------
(* C7: in executeWithReact a tool-result turn that answers a request_replan *)
(* call is the last turn of its transcript: the loop has returned           *)
(* replan_requested, no further decision request was sent, and the replan   *)
(* context is the reason, completed_steps and discoveries of that call.     *)
(* The loop never gets past a request_replan call, and it returns           *)
(* replan_requested only so.  (The call is one whose payload parsed: the    *)
(* request_replan branch is reached.)                                       *)
IsReplanAnswer(i) ==
    /\ messages[i].role = "tool"
    /\ AssistantBefore(i) > 0
    /\ CallsWithId(AssistantBefore(i), messages[i].id) # {}
    /\ AnsweredCall(i).name = "request_replan"

C7_ReplanReturnsAtOnce ==
    prog = "adaptiveAgent" =>
        /\ \A i \in ToolIndexes :
              IsReplanAnswer(i) =>
                  /\ i = Len(messages)
                  /\ messages[i].content = "REPLAN_REQUESTED"
                  /\ ended = "replan"
                  /\ result = "replan_requested"
                  /\ pc \in {"returned", "plan", "done"}
                  /\ requests = Cardinality(AssistantIndexes)
        /\ ended = "replan" =>
              /\ Len(messages) > 0
              /\ IsReplanAnswer(Len(messages))
        /\ (ended = "replan" /\ pc = "returned") =>
              LET call == AnsweredCall(Len(messages))
              IN replanContext =
                    [reason |-> ParsedArgs(call).reason,
                     completedSteps |-> ParsedArgs(call).completed_steps,
                     discoveries |-> ParsedArgs(call).discoveries]
        /\ pc = "calls" =>
              \A k \in 1..(idx - 1) : toolCalls[k].name # "request_replan"

\* executeWithReact returned on a request_replan that was the first of two
\* calls of a response
C7_Witness ==
    /\ prog = "adaptiveAgent"
    /\ pc = "returned"
    /\ ended = "replan"
    /\ Len(toolCalls) = 2
    /\ toolCalls[1].name = "request_replan"
    /\ toolCalls[1].args = "ok"
    /\ replanContext.reason = <<"reason", toolCalls[1].id>>

-----------------------------------------------------------------------------
(* C8: no fault raised while an action request is processed leaves the     *)
(* loop: the request is answered with an error text and the loop goes on.  *)
Raises(call) == ToolCallBody(prog, call).fault

C8_FaultsBecomeResults ==
    /\ ended # "fault"
    /\ \A i \in ToolIndexes :
          Raises(AnsweredCall(i)) => messages[i].content = HandlerError

-----------------------------------------------------------------------------
(* C9: a request that names no declared action is answered with the        *)
(* tool-not-found text, and no handler runs for it.                        *)
C9_UnknownToolReported ==
    \A i \in ToolIndexes :
        AnsweredCall(i).name \notin tools(prog) =>
            /\ messages[i].content \in NotFoundTexts
            /\ InvocationsOf(messages[i].id) = 0

-----------------------------------------------------------------------------
(* C10: the handler of an answered request was invoked exactly once for    *)
(* it, and the tool-result text is what the handler returned.              *)
C10_OneInvocationPerRequest ==
    \A i \in ToolIndexes :
        LET call == AnsweredCall(i)
        IN call.name \in toolHandlers(prog) =>
              /\ InvocationsOf(call.id) = 1
              /\ call.name \notin AsyncHandlers =>
                    messages[i].content = HandlerReturn(prog, call.name, call.args, 1)

-----------------------------------------------------------------------------
(* C11: within one step the handlers run one after another in the order of *)
(* the calls of the assistant turn.  While call number idx is being        *)
(* processed (its handler about to start, or started and waiting for the   *)
(* user), the calls before it have been answered, in order, by the turns   *)
(* that end the transcript, and the handler of no later call has started;  *)
(* the log of handler invocations is in the order of the calls.            *)
IdBefore(a, b) == a[1] < b[1] \/ (a[1] = b[1] /\ a[2] <= b[2])

HandlerStarted(id) == \E n \in 1..Len(invocations) : invocations[n] = id

C11_HandlersOneAfterAnother ==
    /\ \A m, n \in 1..Len(invocations) :
          m <= n => IdBefore(invocations[m], invocations[n])
    /\ pc \in {"calls", "ask", "ask path"} =>
          LET a == Len(messages) - (idx - 1)
          IN /\ a >= 1
             /\ messages[a].role = "assistant"
             /\ messages[a].calls = toolCalls
             /\ \A k \in 1..(idx - 1) :
                   /\ messages[a + k].role = "tool"
                   /\ messages[a + k].id = toolCalls[k].id
             /\ \A k \in (idx + 1)..Len(toolCalls) :
                   ~HandlerStarted(toolCalls[k].id)
             /\ pc = "calls" => ~HandlerStarted(toolCalls[idx].id)

\* interactiveAgent: the asynchronous handler of the second call waits for
\* the user, after the asynchronous handler of the first call has returned
C11_Witness ==
    /\ prog = "interactiveAgent"
    /\ pc = "ask"
    /\ idx = 2
    /\ toolCalls[1].name = "write_file"
    /\ toolCalls[2].name = "write_file"
    /\ HandlerStarted(toolCalls[2].id)
    /\ messages[Len(messages)].id = toolCalls[1].id

-----------------------------------------------------------------------------
(* C12: when the answer to a plan request is not JSON, the program is over  *)
(* and no execution loop was started for that plan: the attempts are one    *)
(* less than the plan requests, and after a failed initial plan no decision *)
(* request was sent, no handler ran and there is no transcript.             *)
C12_NoLoopWithoutPlan ==
    planText = NotJson =>
        /\ prog \in {"planThenExecute", "adaptiveAgent"}
        /\ pc = "done"
        /\ outcome \in {"plan not parsed", "thrown"}
        /\ attempts = planCalls[1] + planCalls[2] - 1
        /\ plan = attempts
        /\ planCalls[2] = 0 =>
              /\ requests = 0
              /\ invocations = <<>>
              /\ messages = <<>>
        /\ planCalls[2] > 0 =>
              /\ ended = "replan"
              /\ messages[1].plan = plan
              /\ requests = Cardinality(AssistantIndexes)

\* planThenExecute got a text that is not JSON
C12_Witness ==
    /\ prog = "planThenExecute"
    /\ planText = NotJson
    /\ outcome = "plan not parsed"
    /\ requests = 0

-----------------------------------------------------------------------------
(* C13: adaptiveAgent reports a plan that cannot be parsed as an outcome:   *)
(* no exception leaves adaptiveAgent because of it.                         *)
C13_PlanFailureReported ==
    (prog = "adaptiveAgent" /\ planText = NotJson) => outcome # "thrown"

-----------------------------------------------------------------------------
(* C14: a plan answer that is JSON but not of the Plan shape (no steps, or  *)
(* empty steps) is refused like one that is not JSON: no execution loop is  *)
(* started with it.                                                         *)
NotPlanShape == {EmptySteps, NoSteps}

C14_OnlyPlansExecuted ==
    planText \in NotPlanShape =>
        /\ pc = "done"
        /\ attempts = planCalls[1] + planCalls[2] - 1

-----------------------------------------------------------------------------
(* C15: in adaptiveAgent a createPlan call in flight has a revision context *)
(* exactly when it is a replanning call; the k-th replanning call follows   *)
(* the k-th attempt, its previous plan is the plan in the system turn of    *)
(* that attempt's transcript, and its completed steps and discoveries are   *)
(* those of the request_replan call that ended that attempt.  Outside a     *)
(* createPlan call no context is pending, and the result of the attempt is  *)
(* gone once adaptiveAgent has used it.                                     *)
C15_RevisionContextOfEndedAttempt ==
    prog = "adaptiveAgent" =>
        /\ pc # "plan" => planRequest = NoPlanRequest
        /\ (pc = "plan" /\ planCalls[2] = 0) => planRequest = NoPlanRequest
        /\ pc \notin {"returned"} => replanContext = NoContext
        /\ (pc = "plan" /\ planCalls[2] > 0) =>
              LET call == AnsweredCall(Len(messages))
              IN /\ planCalls[2] = attempts
                 /\ planRequest.previousPlan = messages[1].plan
                 /\ planRequest.previousPlan = attempts
                 /\ call.name = "request_replan"
                 /\ planRequest.completedSteps = ParsedArgs(call).completed_steps
                 /\ planRequest.discoveries = ParsedArgs(call).discoveries

\* the second replanning call is in flight, with the second plan as previous
\* plan and the lists of a request_replan made in a later iteration
C15_Witness ==
    /\ prog = "adaptiveAgent"
    /\ pc = "plan"
    /\ planCalls = <<1, 2>>
    /\ planRequest.previousPlan = 2
    /\ planRequest.completedSteps[1] = "steps"
    /\ planRequest.completedSteps[2][1] > 1

-----------------------------------------------------------------------------
(* C16: adaptiveAgent never makes more than MAX_REPLANS + 1 plan requests,  *)
(* never starts more than MAX_REPLANS + 1 attempts, no attempt sends more   *)
(* than 20 decision requests, once it is over it sends no request of either *)
(* kind, and when the service answers every request it is over after        *)
(* finitely many steps.                                                     *)
C16_AdaptiveTerminates ==
    /\ [](prog = "adaptiveAgent" =>
            /\ planCalls[1] + planCalls[2] <= MAX_REPLANS + 1
            /\ attempts <= MAX_REPLANS + 1
            /\ requests <= ExecuteWithReactIterations)
    /\ [][outcome # "running" =>
            /\ requests' = requests
            /\ planCalls' = planCalls
            /\ attempts' = attempts
            /\ outcome' = outcome]_vars
    /\ <>(pc = "done" /\ outcome # "running")

\* adaptiveAgent is done after four attempts, the last of which ran into its
\* ceiling of 20 requests
C16_Witness ==
    /\ prog = "adaptiveAgent"
    /\ outcome = "done"
    /\ planCalls = <<1, MAX_REPLANS>>
    /\ attempts = MAX_REPLANS + 1
    /\ ended = "limit"
    /\ requests = ExecuteWithReactIterations

-----------------------------------------------------------------------------
(* C17: when the operation of run_bash, read_file, write_file or list_dir   *)
(* fails, the tool-result turn of the request is the handler's error text.  *)
FailingOperation(call) ==
    /\ call.name \in {"run_bash", "read_file", "write_file", "list_dir"}
    /\ call.name \in toolHandlers(prog)
    /\ OperationFails(call.args, 1)

C17_OperationFailureReported ==
    \A i \in ToolIndexes :
        FailingOperation(AnsweredCall(i)) => messages[i].content = HandlerError

-----------------------------------------------------------------------------
(* C18: in interactiveAgent, once write_file has returned for the answer    *)
(* the user gave last, it has written the file of that call exactly once to *)
(* the requested path and reported the approval if the answer (lower-cased) *)
(* is y or the Cyrillic d; exactly once to the path entered at the second   *)
(* prompt (the requested path if that was empty) and reported the changed   *)
(* path if the answer is edit or e; and not at all, reporting the rejection,*)
(* for any other answer.  While a prompt of write_file is open, nothing has *)
(* been written for its call.                                               *)
WritesOf(id) == {n \in 1..Len(written) : written[n].id = id}

ResultOf(id) == {i \in ToolIndexes : messages[i].id = id}

WriteFileAnswered ==
    /\ prog = "interactiveAgent"
    /\ answered # NoAnswer
    /\ pc # "ask path"

C18_WriteOnlyAfterApproval ==
    /\ (prog = "interactiveAgent" /\ pc \in {"ask", "ask path"}) =>
          WritesOf(toolCalls[idx].id) = {}
    /\ (prog = "interactiveAgent" /\ pc = "ask path") =>
          /\ answered.id = toolCalls[idx].id
          /\ ToLowerCase(answered.answer) \in {"edit", "e"}
    /\ prog = "interactiveAgent" =>
          \A n \in 1..Len(written) : ResultOf(written[n].id) # {}
    /\ WriteFileAnswered =>
          LET w == WritesOf(answered.id)
              low == ToLowerCase(answered.answer)
              finalPath == IF answered.newPath = "" THEN "requested path"
                           ELSE answered.newPath
          IN /\ Cardinality(ResultOf(answered.id)) = 1
             /\ \A i \in ResultOf(answered.id) :
                   IF low \in {"y", "de"}
                   THEN /\ Cardinality(w) = 1
                        /\ \A n \in w : written[n].path = "requested path"
                        /\ messages[i].content = WriteApprovedText
                   ELSE IF low \in {"edit", "e"}
                   THEN /\ Cardinality(w) = 1
                        /\ \A n \in w : written[n].path = finalPath
                        /\ messages[i].content = WritePathChangedText(finalPath)
                   ELSE /\ w = {}
                        /\ messages[i].content = WriteRejected

\* the first write_file of a response was written to the path the user
\* entered, the second was answered with "yes" and rejected
C18_Witness ==
    /\ prog = "interactiveAgent"
    /\ Len(written) = 1
    /\ written[1].path = "other path"
    /\ answered.answer = "yes"
    /\ answered.id # written[1].id
    /\ pc # "ask"

-----------------------------------------------------------------------------
(* C19: with two runs interleaved, the transcript of each run holds its own *)
(* system and user turn, the assistant turns that answered its own requests *)
(* (as many as it has had answered) and the tool turns of its own calls,    *)
(* and nothing else; the handler tables are as they were defined.           *)
TurnsOf(r, role) == {i \in 1..Len(messages[r]) : messages[r][i].role = role}

OwnTurn(r, turn) ==
    CASE turn.role = "system" -> turn = SystemTurn(prog, 0)
      [] turn.role = "user" -> turn.content = TaskOf(r)
      [] turn.role = "assistant" ->
            \A k \in 1..Len(turn.calls) : turn.calls[k].id[1][1] = r
      [] turn.role = "tool" -> turn.id[1][1] = r

C19_TranscriptsIsolated ==
    /\ handlers = Registry(prog)
    /\ \A r \in Runs :
          /\ pc[r] = "start" => messages[r] = <<>>
          /\ pc[r] # "start" =>
                /\ Len(messages[r]) >= 2
                /\ messages[r][1].role = "system"
                /\ messages[r][2].role = "user"
          /\ \A i \in 1..Len(messages[r]) : OwnTurn(r, messages[r][i])
          /\ Cardinality(TurnsOf(r, "user")) <= 1
          /\ Cardinality(TurnsOf(r, "assistant")) =
                requests[r] - (IF pc[r] = "await" THEN 1 ELSE 0)
          /\ Cardinality(TurnsOf(r, "tool")) <=
                MaxCalls * Cardinality(TurnsOf(r, "assistant"))

\* both runs are in the middle of their for-loops, each after at least one
\* full iteration
C19_Witness ==
    /\ prog = "skillsAgent"
    /\ pc[1] = "calls"
    /\ pc[2] = "calls"
    /\ iteration[1] >= 2
    /\ iteration[2] >= 2
    /\ Cardinality(TurnsOf(1, "tool")) >= 1
    /\ Cardinality(TurnsOf(2, "tool")) >= 1

-----------------------------------------------------------------------------
(* C20: a step either starts an execution attempt, and the transcript is    *)
(* then exactly the system turn with the new plan and the user's task, or   *)
(* it leaves the transcript as it was or appends to it; a transcript that   *)
(* has begun starts with the system turn of the current plan and the user   *)
(* turn of the task.                                                        *)
IsPrefix(s, t) == Len(s) <= Len(t) /\ SubSeq(t, 1, Len(s)) = s

C20_TranscriptAppendOnly ==
    [][/\ IF attempts' # attempts
          THEN /\ Len(messages') = 2
               /\ plan' # plan
          ELSE IsPrefix(messages, messages')
       /\ messages' # <<>> =>
             /\ messages'[1] = SystemTurn(prog, plan')
             /\ messages'[2] = UserTurn("task")]_vars

\* the third attempt of adaptiveAgent has sent its first request
C20_Witness ==
    /\ prog = "adaptiveAgent"
    /\ attempts = 3
    /\ pc = "await"
    /\ Len(messages) = 2
    /\ messages[1].plan = 3

-----------------------------------------------------------------------------
(* C21: createAgent refuses a list of skills in which two skills declare a *)
(* tool of the same name: it never returns with two descriptors of one     *)
(* name in the tools it offers.                                            *)
DuplicateDescriptors(tls) ==
    \E i, j \in 1..Len(tls) : i # j /\ tls[i].name = tls[j].name

C21_DuplicateNamesRejected ==
    (pc = "done" /\ input \in SkillLists) =>
        \/ output.error = "DuplicateActionError"
        \/ ~DuplicateDescriptors(output.allTools)


\* C25: a plan wrapped in a markdown code fence, with or without the json
\* tag and with or without the newlines after the opening fence, before the
\* closing fence and after it, parses to the same plan as the bare text.
FencedForms(body) ==
    {<<"fence">> \o tag \o n1 \o body \o n2 \o <<"fence">> \o n3 :
        tag \in {<<>>, <<"json">>},
        n1 \in {<<>>, <<"nl">>},
        n2 \in {<<>>, <<"nl">>},
        n3 \in {<<>>, <<"nl">>}}
C25_FencedPlanParsesAsBare ==
    (pc = "done" /\ input \in FencedForms(PlanJson)) =>
        /\ output.plan = "PLAN"
        /\ output.plan = JsonParse(PlanJson)
        /\ outcome = "returned"
C25_Witness ==
    /\ pc = "done"
    /\ input = FencedPlan
    /\ output.cleanJson = PlanJson
    /\ output.plan = "PLAN"

\* C22: a command-line argument that names no mode of 06-planning or of
\* 08-interactive-agent makes main print the usage line and return, with no
\* request sent and no handler run; with no argument 06 runs
\* planThenExecute, 08 runs the project scenario and 07 runs the default
\* task, and the loop's transcript starts from the task main chose.
KnownModes(file) ==
    CASE file = "06-planning" -> {"plan", "react"}
      [] file = "08-interactive-agent" -> {"project", "refactor", "free"}
      [] OTHER -> Argv
C22_UsageAndDefaults ==
    pc # "main" =>
        /\ (input.argv \notin KnownModes(input.file) \cup {"absent"}) =>
               /\ pc = "done"
               /\ result = "usage"
               /\ outcome = "returned"
               /\ requests = 0
               /\ planCalls = <<0, 0>>
               /\ invocations = <<>>
               /\ messages = <<>>
        /\ (input.argv = "absent" /\ input.file = "06-planning") =>
               prog = "planThenExecute"
        /\ (input.argv = "absent" /\ input.file = "07-adaptive-agent") =>
               prog = "adaptiveAgent" /\ given = "default task"
        /\ (input.argv = "absent" /\ input.file = "08-interactive-agent") =>
               prog = "interactiveAgent" /\ given = "project task"
        /\ (input.argv = "absent" /\ Len(messages) >= 2) =>
               messages[2] = UserTurn(given)
C22_Witness ==
    /\ pc = "done"
    /\ input.file = "08-interactive-agent"
    /\ input.argv = "other"
    /\ result = "usage"

\* C26: when the first response of the service asks get_weather for two
\* cities of the table and its second response has no tool calls, agentLoop
\* is over after 2 requests, its transcript holds exactly two tool turns,
\* each with the id of the call it answers and the table entry of that
\* call's city, and the loop returns the content of the final message.
TwoCitiesThenFinal ==
    /\ prog = "agentLoop"
    /\ Len(messages) >= 6
    /\ messages[3].role = "assistant"
    /\ Len(messages[3].calls) = 2
    /\ \A k \in 1..2 :
          /\ messages[3].calls[k].name = "get_weather"
          /\ messages[3].calls[k].args \in DOMAIN data
    /\ messages[6].role = "assistant"
    /\ messages[6].calls = <<>>
C26_TwoCityWeather ==
    TwoCitiesThenFinal =>
        /\ pc = "done"
        /\ ended = "final"
        /\ outcome = "returned"
        /\ iteration = 2
        /\ requests = 2
        /\ Len(messages) = 6
        /\ ToolIndexes = {4, 5}
        /\ \A k \in 1..2 :
              /\ messages[3 + k].id = messages[3].calls[k].id
              /\ messages[3 + k].content = data[messages[3].calls[k].args]
        /\ result = "message.content"
C26_Witness ==
    /\ TwoCitiesThenFinal
    /\ messages[3].calls[1].args = "Moskva"
    /\ messages[3].calls[2].args = "Anapa"
    /\ messages[4].content = "-5C, snow"
    /\ messages[5].content = "+8C, cloudy"
    /\ pc = "done"

\* C23: a run_bash or list_dir call whose process never exits is answered,
\* once its handler has been called, by a tool turn with the handler's
\* error text, and the loop is never left blocked in a handler.
C23_HangingCommandAnswered ==
    /\ pc # "hung"
    /\ \A k \in 1..Len(toolCalls) :
          (/\ toolCalls[k].name \in {"run_bash", "list_dir"}
           /\ toolCalls[k].args = "hangs"
           /\ InvocationsOf(toolCalls[k].id) > 0) =>
              \E i \in ToolIndexes :
                  /\ messages[i].id = toolCalls[k].id
                  /\ messages[i].content = HandlerError

\* C24: when adaptiveAgent has returned, its return value holds the final
\* result, the number of iterations and the number of replans of the run.
C24_ReturnsResultAndCounts ==
    (prog = "adaptiveAgent" /\ pc = "done" /\ outcome \in {"done", "aborted"}) =>
        /\ output # "undefined"
        /\ output.result = result
        /\ output.iterations = requests
        /\ output.replans = replanCount

\* C27: a handler called twice with the same arguments, the files and the
\* commands' behaviour unchanged in between, returns the same text.
C27_SameArgumentsSameText ==
    (pc = "done" /\ Len(output) = 2) => output[1] = output[2]

\* C28: when executeWithReact has returned on a request_replan that was the
\* k-th tool call of the last assistant turn, the calls 1..k of that turn
\* are answered in order by the k turns after it, the handler of every call
\* before k that has one was executed, and no call after k was executed or
\* answered.
ReplanPosition ==
    CHOOSE k \in 1..Len(toolCalls) :
        /\ toolCalls[k].name = "request_replan"
        /\ \A j \in 1..(k - 1) : toolCalls[j].name # "request_replan"
C28_ReplanShortCircuits ==
    (prog = "adaptiveAgent" /\ ended = "replan") =>
        LET k == ReplanPosition
            a == Len(messages) - k
        IN /\ a >= 1
           /\ messages[a].role = "assistant"
           /\ messages[a].calls = toolCalls
           /\ \A j \in 1..k :
                 /\ messages[a + j].role = "tool"
                 /\ messages[a + j].id = toolCalls[j].id
           /\ \A j \in 1..(k - 1) :
                 toolCalls[j].name \in toolHandlers(prog) =>
                     InvocationsOf(toolCalls[j].id) >= 1
           /\ \A j \in (k + 1)..Len(toolCalls) :
                 /\ InvocationsOf(toolCalls[j].id) = 0
                 /\ \A i \in ToolIndexes : messages[i].id # toolCalls[j].id
C28_Witness ==
    /\ prog = "adaptiveAgent"
    /\ ended = "replan"
    /\ Len(toolCalls) = 2
    /\ toolCalls[1].name = "run_bash"
    /\ toolCalls[2].name = "request_replan"
    /\ InvocationsOf(toolCalls[1].id) = 2
    /\ messages[Len(messages)].content = "REPLAN_REQUESTED"

\* C29: once an execution attempt of adaptiveAgent has used up its 20
\* iterations, no plan is requested, no attempt is started and no decision
\* request is sent any more, and the run ends as completed.
C29_LimitEndsRun ==
    [][(prog = "adaptiveAgent" /\ ended = "limit") =>
          /\ planCalls' = planCalls
          /\ attempts' = attempts
          /\ requests' = requests
          /\ replanCount' = replanCount
          /\ pc' = "done"
          /\ outcome' = "done"]_vars
C29_Witness ==
    /\ prog = "adaptiveAgent"
    /\ ended = "limit"
    /\ iteration = ExecuteWithReactIterations
    /\ pc = "done"
    /\ outcome = "done"

\* C30: interactiveAgent is over only after an empty follow-up of the user
\* or after its 30th decision request.
C30_InteractiveEndsTwoWays ==
    (prog = "interactiveAgent" /\ pc = "done") =>
        \/ ended = "user"
        \/ ended = "limit" /\ requests = InteractiveIterations

\* C31: when interactiveAgent is over, every follow-up message of the user
\* (a user turn after the initial one) has been sent to the service: the
\* service's answer to a request that held it stands after it in the
\* transcript.
UserIndexes == {i \in Indexes : i > 2 /\ messages[i].role = "user"}
C31_FollowUpsAreSent ==
    (prog = "interactiveAgent" /\ pc = "done") =>
        \A i \in UserIndexes :
            \E j \in AssistantIndexes : j > i

\* C32: in the transcript of interactiveAgent every user turn after the
\* initial one stands directly after an assistant turn without tool calls,
\* and every tool turn belongs to an assistant turn with tool calls, with
\* nothing but tool turns between the two.
C32_FollowUpsOnlyAfterText ==
    prog = "interactiveAgent" =>
        /\ \A i \in UserIndexes :
              /\ messages[i - 1].role = "assistant"
              /\ messages[i - 1].calls = <<>>
        /\ \A i \in ToolIndexes :
              LET a == AssistantBefore(i)
              IN /\ a > 0
                 /\ messages[a].calls # <<>>
                 /\ \A j \in (a + 1)..i : messages[j].role = "tool"
C32_Witness ==
    /\ prog = "interactiveAgent"
    /\ \E i \in UserIndexes : \E j \in ToolIndexes : j > i
    /\ \E i \in UserIndexes : \E j \in ToolIndexes : j < i

\* C33: while an execution attempt of adaptiveAgent is running,
\* 0 <= replanCount <= MAX_REPLANS, the number of plans created so far is
\* replanCount + 1, and the plan in the attempt's system turn is the one
\* created last.
AttemptRunning == prog = "adaptiveAgent" /\ pc \in {"await", "calls"}
C33_AttemptRunsLatestPlan ==
    AttemptRunning =>
        /\ 0 <= replanCount
        /\ replanCount <= MAX_REPLANS
        /\ plan = replanCount + 1
        /\ attempts = plan
        /\ messages[1].role = "system"
        /\ messages[1].plan = plan
C33_Witness ==
    /\ AttemptRunning
    /\ pc = "calls"
    /\ replanCount = MAX_REPLANS
    /\ messages[1].plan = MAX_REPLANS + 1

\* C34: the names a loop offers to the service with its requests are the
\* names its handler tables have an entry for: every declared tool has a
\* handler and no handler is undeclared (for the skills agent, over the
\* tables of all skills passed to createAgent).
HandlerNames == UNION {handlers[t] : t \in DOMAIN handlers}
C34_DeclaredEqualsHandled ==
    /\ HandlerNames = tools(prog)
    /\ prog = "skillsAgent" =>
          HandlerNames = UNION {SkillHandlers(Skills[n]) : n \in 1..Len(Skills)}
C34_Witness ==
    /\ prog = "skillsAgent"
    /\ pc = "await"
    /\ requests >= 1
    /\ Cardinality(HandlerNames) = 5
    /\ Cardinality(DOMAIN handlers) = 3

\* C35: ask_user_choice returns option n when the answer is a number n
\* with 1 <= n <= number of options, the separately typed text when the
\* answer is the number options + 1 and allow_custom is set, and in every
\* other case (an answer that is not a number, a number out of range,
\* options + 1 without allow_custom) the answer as typed.
IsNumeral(t) == t # <<>> /\ \A k \in 1..Len(t) : t[k] \in Digits
C35_ChoiceMapping ==
    pc = "done" =>
        LET n == LeadingDigits(input.answer, 0)
        IN IF IsNumeral(input.answer) /\ n >= 1 /\ n <= input.options
           THEN output.kind = "chose" /\ output.option = n
           ELSE IF /\ IsNumeral(input.answer)
                   /\ n = input.options + 1
                   /\ input.allow_custom
           THEN output.kind = "custom"
           ELSE output.kind = "answered" /\ output.text = input.answer

\* C36: an answer that ask_user_confirm takes for a yes, given at the
\* approval prompt of write_file, never makes write_file return the
\* rejection.
C36_AffirmativeNeverRejected ==
    prog = "interactiveAgent" =>
        \A i \in ToolIndexes :
            (/\ messages[i].id = answered.id
             /\ AnsweredCall(i).name = "write_file"
             /\ Confirmed(answered.answer)) =>
                messages[i].content # WriteRejected

\* C37: when 08-interactive-agent has ended normally (empty follow-up,
\* iteration ceiling, unknown scenario) its readline interface has been
\* closed exactly once; it is never closed more than once, and no prompt is
\* issued after it was closed.
C37_ReadlineClosedOnce ==
    /\ rl.closed <= 1
    /\ ~rl.askedAfterClose
    /\ (input.file = "08-interactive-agent" /\ pc = "done"
        /\ outcome = "returned") => rl.closed = 1
    /\ (rl.closed = 1) => pc = "done"
C37_Witness ==
    /\ input.file = "08-interactive-agent"
    /\ input.argv = "free"
    /\ pc = "done"
    /\ ended = "limit"
    /\ rl.closed = 1

=========================================================================
